---- MODULE Spec2Model ----
(***************************************************************************)
(* Model of the emergency-power flowchart generator:                      *)
(*   src/Flow.py                   citation-grouped generator and its CLI  *)
(*   src/flow/backend/app/Flow.py  location-grouped generator and its CLI  *)
(*   src/flow/backend/app/backend.py  the HTTP service                     *)
(*                                                                         *)
(* Text is a sequence of one-character strings.  A few multi-character     *)
(* tokens ("Citation:", "flowchart_", ...) stand for the literal pieces of *)
(* the f-strings of the source.  The missing-value marker of pandas (NaN)  *)
(* is the one-element sequence NaN, which is no text.                      *)
(***************************************************************************)
EXTENDS Naturals, Sequences, FiniteSets, TLC

VARIABLES df, gen, prog, reqs, cli, fs

vars == <<df, gen, prog, reqs, cli, fs>>

-----------------------------------------------------------------------------
(* Text                                                                    *)

\* The characters of the model, in code-point order (Python compares str by
\* code point): space, "(", ".", "A", "_", "a", "b".
Alphabet == <<" ", "(", ".", "A", "_", "a", "b">>

Chars == {Alphabet[i] : i \in 1..Len(Alphabet)}

Ord(c) == CHOOSE i \in 1..Len(Alphabet) : Alphabet[i] = c

NaN == <<"NaN">>

isna(x) == x = NaN

\* str(x) as an f-string formats a field: the text itself, "nan" for NaN.
Str(x) == IF isna(x) THEN <<"n", "a", "n">> ELSE x

\* a < b for two texts, as Python's str.__lt__ (lexicographic by code point).
RECURSIVE StrLess(_, _)
StrLess(a, b) ==
    IF b = <<>> THEN FALSE
    ELSE IF a = <<>> THEN TRUE
    ELSE IF Head(a) = Head(b) THEN StrLess(Tail(a), Tail(b))
    ELSE Ord(Head(a)) < Ord(Head(b))

\* str.lower()
LowerChar(c) == IF c = "A" THEN "a" ELSE c

lower(s) == [i \in 1..Len(s) |-> LowerChar(s[i])]

\* str.replace(' ', '_')
replace(s) == [i \in 1..Len(s) |-> IF s[i] = " " THEN "_" ELSE s[i]]

IsSpace(c) == c \in {" ", "\n"}

\* textwrap drops the whitespace that ends a line.
RECURSIVE DropTrailing(_)
DropTrailing(s) ==
    IF s = <<>> THEN s
    ELSE IF IsSpace(s[Len(s)]) THEN DropTrailing(SubSeq(s, 1, Len(s) - 1))
    ELSE s

\* wrap_text: "N/A" for a missing value; otherwise textwrap.wrap joined by
\* newlines.  Every text of the model is shorter than the width of 40, so the
\* result is the single line textwrap produces: whitespace characters
\* (the "\n" of the label prefixes included) become spaces, trailing
\* whitespace is dropped, and a text of whitespace only gives no line at all.
wrap_text(text) ==
    IF isna(text) THEN <<"N", "/", "A">>
    ELSE DropTrailing([i \in 1..Len(text) |->
                          IF IsSpace(text[i]) THEN " " ELSE text[i]])

-----------------------------------------------------------------------------
(* Sequences                                                               *)

Range(s) == {s[i] : i \in 1..Len(s)}

\* Series.unique(): the distinct values in order of first occurrence.
RECURSIVE unique(_)
unique(s) ==
    IF s = <<>> THEN <<>>
    ELSE LET r == unique(SubSeq(s, 1, Len(s) - 1))
             x == s[Len(s)]
         IN IF x \in Range(r) THEN r ELSE Append(r, x)

\* Series.dropna()
dropna(s) == SelectSeq(s, LAMBDA x : ~isna(x))

\* Insertion of x into the sorted sequence s, before the first greater element.
RECURSIVE Insert(_, _)
Insert(x, s) ==
    IF s = <<>> THEN <<x>>
    ELSE IF StrLess(x, Head(s)) THEN <<x>> \o s
    ELSE <<Head(s)>> \o Insert(x, Tail(s))

\* sorted(list) of texts.
RECURSIVE sorted(_)
sorted(s) == IF s = <<>> THEN <<>> ELSE Insert(Head(s), sorted(Tail(s)))

Column(d, f) == [i \in 1..Len(d) |-> d[i][f]]

-----------------------------------------------------------------------------
(* The dataset and the option index (both generators, __init__)            *)

\* One row of the CSV, by column.
Row(e, t, c, p, d, h, m, f, fd, l) ==
    [entity |-> e, trigger |-> t, citation |-> c, parent |-> p, desc |-> d,
     health |-> h, military |-> m, funding |-> f, fundingDesc |-> fd,
     location |-> l]

\* (Variant of Entities that leaves the values in order of first occurrence.)
UnsortedEntities(d) == unique(Column(d, "entity"))

\* sorted(df['Entity.Empowered'].unique()): NaN is kept by unique(), and
\* sorted() raises TypeError as soon as it compares NaN (a float) with a str.
Entities(d) == sorted(unique(Column(d, "entity")))

EntitiesRaise(d) ==
    LET u == unique(Column(d, "entity")) IN NaN \in Range(u) /\ Len(u) > 1

\* sorted(df['Triggering.Event'].dropna().unique())
Triggers(d) == sorted(unique(dropna(Column(d, "trigger"))))

\* __init__: the generator object, or the exception that ends the process.
Construct(d) ==
    IF EntitiesRaise(d)
    THEN [status |-> "TypeError", entities |-> <<>>, triggers |-> <<>>]
    ELSE [status |-> "ok", entities |-> Entities(d), triggers |-> Triggers(d)]

-----------------------------------------------------------------------------
(* The record filter (generate_flowchart, first statement)                 *)

\* re.compile(trigger): of the characters of the model "(" opens a group that
\* nothing closes (re.error); "." is the wildcard; the others are literals.
Compiles(pat) == \A i \in 1..Len(pat) : pat[i] # "("

\* One pattern character against one character of the text.
MatchChar(p, c) == IF p = "." THEN c # "\n" ELSE p = c

\* pattern.search(text) is not None
Search(pat, text) ==
    \E k \in 0..(Len(text) - Len(pat)) :
        \A i \in 1..Len(pat) : MatchChar(pat[i], text[k + i])

\* Series.str.contains(trigger, na=False), element by element.
contains(pat, x) == ~isna(x) /\ Search(pat, x)

\* The .str accessor exists only on a column that holds strings: a column of
\* missing values alone is read as float64 and .str raises AttributeError.
\* A file of the header alone gives an empty object column, which has .str.
StrAccessorRaises(d) == Len(d) > 0 /\ \A i \in 1..Len(d) : isna(d[i].trigger)

RowAt(d, idx) == d[idx + 1]

\* The RangeIndex read_csv gives the rows: 0, 1, ...
Index(d) == [i \in 1..Len(d) |-> i - 1]

\* The boolean mask of the filter, for one row.
FilterMask(entity, trigger, row) ==
    row.entity = entity /\ contains(trigger, row.trigger)

\* filtered_df (the labels of the selected rows, in row order), or the
\* exception raised while computing it.
Filter(d, entity, trigger) ==
    IF StrAccessorRaises(d) THEN [exc |-> "AttributeError", rows |-> <<>>]
    ELSE IF ~Compiles(trigger) THEN [exc |-> "re.error", rows |-> <<>>]
    ELSE [exc |-> "none",
          rows |-> SelectSeq(Index(d),
                             LAMBDA idx : FilterMask(entity, trigger, RowAt(d, idx)))]

-----------------------------------------------------------------------------
(* The diagram (graphviz.Digraph): node and edge statements in the order   *)
(* they are emitted, and the subgraph clusters.                            *)

Digraph(entity, trigger) ==
    [comment |-> entity \o <<" - ">> \o trigger \o <<" Power Flow">>,
     nodes |-> <<>>, edges |-> <<>>, clusters |-> <<>>]

node(dot, id, label, cluster) ==
    [dot EXCEPT !.nodes = Append(@, [id |-> id, label |-> label, cluster |-> cluster])]

edge(dot, a, b) == [dot EXCEPT !.edges = Append(@, <<a, b>>)]

subgraph(dot, name, label) ==
    [dot EXCEPT !.clusters = Append(@, [name |-> name, label |-> label])]

\* The entity and trigger nodes and the edge between them (both generators).
Header(entity, trigger) ==
    LET d0 == subgraph(Digraph(entity, trigger), <<"cluster_top">>, <<>>)
        d1 == node(d0, <<"entity">>, wrap_text(entity), <<"cluster_top">>)
        d2 == subgraph(d1, <<"cluster_trigger">>, <<>>)
        d3 == node(d2, <<"trigger">>, wrap_text(trigger), <<"cluster_trigger">>)
    IN edge(d3, <<"entity">>, <<"trigger">>)

Id(prefix, idx) == <<prefix, ToString(idx)>>

NoDot == [comment |-> <<>>, nodes |-> <<>>, edges |-> <<>>, clusters |-> <<>>]

-----------------------------------------------------------------------------
(* The citation-grouped builder (src/Flow.py)                              *)

\* f"{row['Citation']} {row['Parent.Statute']}": always a str.
CitationText(row) == Str(row.citation) \o <<" ">> \o Str(row.parent)

\* (Variant of Detail that hangs the detail node on the trigger node.)
DetailUnderTrigger(dot, present, id, label, cluster, citation_id) ==
    IF present THEN edge(node(dot, id, wrap_text(label), cluster), <<"trigger">>, id)
    ELSE dot

\* One detail node under the citation node, when its attribute is present.
Detail(dot, present, id, label, cluster, citation_id) ==
    IF present THEN edge(node(dot, id, wrap_text(label), cluster), citation_id, id)
    ELSE dot

FundingText(row) ==
    IF ~isna(row.fundingDesc) THEN row.funding \o <<"\n">> \o row.fundingDesc
    ELSE row.funding

\* The label of the group container of the row labelled idx.
GroupLabel(idx) == <<"Power Group ", ToString(idx + 1)>>

\* The body of the loop over filtered_df.iterrows(), for the row labelled idx.
CiteRow(dot, d, idx) ==
    LET row == RowAt(d, idx)
        cluster_name == Id("cluster_group_", idx)
        g == subgraph(dot, cluster_name, GroupLabel(idx))
        citation == CitationText(row)
        citation_id == Id("citation_", idx)
        c0 == edge(node(g, citation_id, wrap_text(<<"Citation:", "\n">> \o citation),
                        cluster_name),
                   <<"trigger">>, citation_id)
        c1 == Detail(c0, ~isna(row.desc), Id("desc_", idx),
                     <<"Implementation:", "\n">> \o Str(row.desc),
                     cluster_name, citation_id)
        c2 == Detail(c1, ~isna(row.health), Id("health_", idx),
                     <<"Health Impact:", "\n">> \o Str(row.health),
                     cluster_name, citation_id)
        c3 == Detail(c2, ~isna(row.military), Id("military_", idx),
                     <<"Military Involvement:", "\n">> \o Str(row.military),
                     cluster_name, citation_id)
        c4 == Detail(c3, ~isna(row.funding), Id("funding_", idx),
                     <<"Funding:", "\n">> \o FundingText(row),
                     cluster_name, citation_id)
    IN IF ~isna(citation) THEN c4 ELSE g

RECURSIVE CiteRows(_, _, _)
CiteRows(dot, d, rows) ==
    IF rows = <<>> THEN dot
    ELSE CiteRows(CiteRow(dot, d, Head(rows)), d, Tail(rows))

\* generate_flowchart of src/Flow.py: the diagram, or the exception raised.
CiteGenerateFlowchart(d, entity, trigger) ==
    LET f == Filter(d, entity, trigger)
    IN IF f.exc # "none" THEN [exc |-> f.exc, rows |-> <<>>, dot |-> NoDot]
       ELSE IF f.rows = <<>> THEN [exc |-> "ValueError", rows |-> <<>>, dot |-> NoDot]
       ELSE [exc |-> "none", rows |-> f.rows,
             dot |-> CiteRows(Header(entity, trigger), d, f.rows)]

-----------------------------------------------------------------------------
(* The location-grouped builder (src/flow/backend/app/Flow.py)             *)

\* f'location_{loc.lower().replace(" ", "_")}'
LocId(loc) == <<"location_">> \o replace(lower(loc))

\* (Variant of PowerRow that does not let the description gate the citation:
\* without a description the citation node hangs on the location node.)
PowerRowUngated(dot, d, idx, loc_id) ==
    LET row == RowAt(d, idx)
        power_id == Id("power_", idx)
        citation_id == Id("citation_", idx)
        p == IF ~isna(row.desc)
             THEN edge(node(dot, power_id,
                            wrap_text(<<"Power:", "\n">> \o Str(row.desc)), <<>>),
                       loc_id, power_id)
             ELSE dot
    IN edge(node(p, citation_id,
                 wrap_text(<<"Citation:", "\n">> \o CitationText(row)), <<>>),
            IF ~isna(row.desc) THEN power_id ELSE loc_id, citation_id)

\* The body of the loop over loc_rows.iterrows(), for the row labelled idx.
PowerRow(dot, d, idx, loc_id) ==
    LET row == RowAt(d, idx)
        power_id == Id("power_", idx)
        p == edge(node(dot, power_id,
                       wrap_text(<<"Power:", "\n">> \o Str(row.desc)), <<>>),
                  loc_id, power_id)
        citation == CitationText(row)
        citation_id == Id("citation_", idx)
        c == edge(node(p, citation_id,
                       wrap_text(<<"Citation:", "\n">> \o citation), <<>>),
                  power_id, citation_id)
    IN IF ~isna(row.desc)
       THEN IF ~isna(citation) THEN c ELSE p
       ELSE dot

RECURSIVE PowerRows(_, _, _, _)
PowerRows(dot, d, rows, loc_id) ==
    IF rows = <<>> THEN dot
    ELSE PowerRows(PowerRow(dot, d, Head(rows), loc_id), d, Tail(rows), loc_id)

\* filtered_df[filtered_df['Location'] == loc]
LocRows(d, rows, loc) ==
    SelectSeq(rows, LAMBDA idx : RowAt(d, idx).location = loc)

\* filtered_df['Location'].unique(): NaN is one of the values when a
\* filtered row has no location.
Locations(d, rows) == unique([i \in 1..Len(rows) |-> RowAt(d, rows[i]).location])

\* The loop over the locations.  loc.lower() on NaN (a float) raises
\* AttributeError and the diagram built so far is lost.
RECURSIVE LocLoop(_, _, _, _)
LocLoop(dot, d, rows, locs) ==
    IF locs = <<>> THEN [exc |-> "none", dot |-> dot]
    ELSE LET loc == Head(locs)
             loc_id == LocId(loc)
             l == edge(node(dot, loc_id, wrap_text(<<"Location:", "\n">> \o loc), <<>>),
                       <<"trigger">>, loc_id)
         IN IF isna(loc) THEN [exc |-> "AttributeError", dot |-> NoDot]
            ELSE LocLoop(PowerRows(l, d, LocRows(d, rows, loc), loc_id),
                         d, rows, Tail(locs))

\* generate_flowchart of the backend's Flow.py.
LocGenerateFlowchart(d, entity, trigger) ==
    LET f == Filter(d, entity, trigger)
        b == LocLoop(Header(entity, trigger), d, f.rows, Locations(d, f.rows))
    IN IF f.exc # "none" THEN [exc |-> f.exc, rows |-> <<>>, dot |-> NoDot]
       ELSE IF f.rows = <<>> THEN [exc |-> "ValueError", rows |-> <<>>, dot |-> NoDot]
       ELSE [exc |-> b.exc, rows |-> f.rows, dot |-> b.dot]

GenerateFlowchart(variant, d, entity, trigger) ==
    IF variant = "cite" THEN CiteGenerateFlowchart(d, entity, trigger)
    ELSE LocGenerateFlowchart(d, entity, trigger)

-----------------------------------------------------------------------------
(* Rendering and the callers                                               *)

\* f"flowchart_{entity.lower().replace(' ', '_')}_{trigger.lower().replace(' ', '_')}"
OutputPath(entity, trigger) ==
    <<"flowchart_">> \o replace(lower(entity)) \o <<"_">> \o replace(lower(trigger))

PngName(output_path) == output_path \o <<".png">>

\* save_flowchart: dot.render(output_path, format='png', cleanup=True) writes
\* output_path.png in the working directory, replacing a file of that name.
\* The image is represented by the diagram it is rendered from.
save_flowchart(files, dot, output_path) ==
    [n \in (DOMAIN files) \cup {PngName(output_path)} |->
        IF n = PngName(output_path) THEN dot ELSE files[n]]

\* str(e) of the exception generate_flowchart raised.
Message(exc, entity, trigger) ==
    IF exc = "ValueError"
    THEN <<"No data found for entity '">> \o entity \o <<"' and trigger '">>
            \o trigger \o <<"'">>
    ELSE <<exc>>

NoFiles == [n \in {} |-> NoDot]

CliStart == [pc |-> "prompt", entity |-> <<>>, trigger |-> <<>>, exc |-> "none",
             rows |-> <<>>, flowchart |-> NoDot, printed |-> <<>>]

\* The lines main() of src/Flow.py prints before it prompts; the backend's
\* main() prints none.
OptionLines(variant) ==
    IF variant = "cite" THEN gen.entities \o gen.triggers ELSE <<>>

\* main() of either Flow.py, run on the answers entity and trigger.  Only
\* ValueError is caught; any other exception ends the process with a traceback.
CliMain(variant, entity, trigger) ==
    /\ prog = variant
    /\ gen.status = "ok"
    /\ cli.pc = "prompt"
    /\ LET g == GenerateFlowchart(variant, df, entity, trigger)
           output_path == OutputPath(entity, trigger)
       IN IF g.exc = "none"
          THEN /\ fs' = save_flowchart(fs, g.dot, output_path)
               /\ cli' = [pc |-> "done", entity |-> entity, trigger |-> trigger,
                          exc |-> g.exc, rows |-> g.rows, flowchart |-> g.dot,
                          printed |-> Append(OptionLines(variant),
                                             <<"saved as ">> \o PngName(output_path))]
          ELSE /\ fs' = fs
               /\ cli' = [pc |-> IF g.exc = "ValueError" THEN "done" ELSE "crashed",
                          entity |-> entity, trigger |-> trigger,
                          exc |-> g.exc, rows |-> g.rows, flowchart |-> g.dot,
                          printed |-> IF g.exc = "ValueError"
                                      THEN Append(OptionLines(variant),
                                                  <<"Error: ">> \o Message(g.exc, entity, trigger))
                                      ELSE OptionLines(variant)]
    /\ UNCHANGED <<df, gen, prog, reqs>>

Idle == [pc |-> "idle", route |-> "none", agency |-> <<>>, event |-> <<>>,
         exc |-> "none", rows |-> <<>>, dot |-> NoDot, path |-> <<>>,
         message |-> <<>>, agencies |-> <<>>, events |-> <<>>, body |-> NoDot]

\* GET /get-options
GetOptions(r) ==
    /\ prog = "server"
    /\ gen.status = "ok"
    /\ reqs[r].pc = "idle"
    /\ reqs' = [reqs EXCEPT ![r] = [Idle EXCEPT !.pc = "done", !.route = "get-options",
                                                !.agencies = gen.entities,
                                                !.events = gen.triggers]]
    /\ UNCHANGED <<df, gen, prog, cli, fs>>

\* POST /generate-flowchart, the handler: it runs to its return statement
\* without yielding.  On success the PNG is on disk and the handler returns
\* FileResponse(path); any exception gives the JSON error envelope.
PostHandle(r, agency, event) ==
    /\ prog = "server"
    /\ gen.status = "ok"
    /\ reqs[r].pc = "idle"
    /\ LET g == LocGenerateFlowchart(df, agency, event)
           output_filename == OutputPath(agency, event)
           req == [Idle EXCEPT !.route = "generate-flowchart", !.agency = agency,
                               !.event = event, !.exc = g.exc, !.rows = g.rows,
                               !.dot = g.dot]
       IN IF g.exc = "none"
          THEN /\ fs' = save_flowchart(fs, g.dot, output_filename)
               /\ reqs' = [reqs EXCEPT ![r] = [req EXCEPT !.pc = "sending",
                                                         !.path = PngName(output_filename)]]
          ELSE /\ fs' = fs
               /\ reqs' = [reqs EXCEPT ![r] = [req EXCEPT !.pc = "done",
                                                         !.message = Message(g.exc, agency, event)]]
    /\ UNCHANGED <<df, gen, prog, cli>>

\* The FileResponse is sent after the handler has returned: the file at path
\* is opened and read then, which is when the event loop may already have run
\* other handlers.
PostSend(r) ==
    /\ prog = "server"
    /\ reqs[r].pc = "sending"
    /\ reqs' = [reqs EXCEPT ![r] = [@ EXCEPT !.pc = "done", !.body = fs[reqs[r].path]]]
    /\ UNCHANGED <<df, gen, prog, cli, fs>>

\* The response has been sent and the connection serves the next request.
Close(r) ==
    /\ prog = "server"
    /\ reqs[r].pc = "done"
    /\ reqs' = [reqs EXCEPT ![r] = Idle]
    /\ UNCHANGED <<df, gen, prog, cli, fs>>

-----------------------------------------------------------------------------
(* Specifications                                                          *)

MaxRows == 2

NReq == 2

Datasets(pool) == UNION {[1..k -> pool] : k \in 0..MaxRows}

\* Texts of one character each, by name.
a == <<"a">>
b == <<"b">>
A == <<"A">>

Programs == {"cite", "loc", "server"}

InitWith(pool, programs, slots) ==
    /\ df \in Datasets(pool)
    /\ gen = Construct(df)
    /\ prog \in programs
    /\ reqs = [r \in slots |-> Idle]
    /\ cli = CliStart
    /\ fs = NoFiles

NextWith(entities, triggers) ==
    \/ \E v \in {"cite", "loc"}, e \in entities, t \in triggers : CliMain(v, e, t)
    \/ \E r \in DOMAIN reqs : GetOptions(r)
    \/ \E r \in DOMAIN reqs, e \in entities, t \in triggers : PostHandle(r, e, t)
    \/ \E r \in DOMAIN reqs : PostSend(r)
    \/ \E r \in DOMAIN reqs : Close(r)

\* Filter and option index: rows that differ in entity and trigger only.
FilterPool ==
    {Row(e, t, a, a, a, NaN, NaN, NaN, NaN, a) :
        e \in {a, b, NaN}, t \in {NaN, A, <<"a", "b">>, <<".">>}}

FilterEntities == {a}

FilterTriggers == {<<>>, a, A, <<".">>, <<"(">>}

\* One connection, serving one request after the other.
Init == InitWith(FilterPool, Programs, {1})

Next == NextWith(FilterEntities, FilterTriggers)

Spec == Init /\ [][Next]_vars

\* The builders: main() of either Flow.py on rows that differ in the
\* attributes the builder of that file reads.
DetailPatterns ==
    {[desc |-> a, health |-> a, military |-> a, funding |-> a, fundingDesc |-> a],
     [desc |-> NaN, health |-> NaN, military |-> NaN, funding |-> NaN, fundingDesc |-> NaN],
     [desc |-> a, health |-> NaN, military |-> NaN, funding |-> NaN, fundingDesc |-> NaN],
     [desc |-> NaN, health |-> a, military |-> NaN, funding |-> NaN, fundingDesc |-> NaN],
     [desc |-> NaN, health |-> NaN, military |-> a, funding |-> NaN, fundingDesc |-> NaN],
     [desc |-> NaN, health |-> NaN, military |-> NaN, funding |-> a, fundingDesc |-> NaN],
     [desc |-> NaN, health |-> NaN, military |-> NaN, funding |-> a, fundingDesc |-> b],
     [desc |-> NaN, health |-> NaN, military |-> NaN, funding |-> NaN, fundingDesc |-> b]}

\* A row of another entity, which the filter drops.
OtherRow == Row(b, a, a, a, a, NaN, NaN, NaN, NaN, a)

CitePool ==
    {Row(a, a, c, p, d.desc, d.health, d.military, d.funding, d.fundingDesc, a) :
        c \in {a, NaN}, p \in {a, NaN}, d \in DetailPatterns}
    \cup {OtherRow}

LocPool ==
    {Row(a, a, c, c, d, NaN, NaN, NaN, NaN, l) :
        c \in {a, NaN}, d \in {a, NaN}, l \in {a, A, b, <<" ">>, <<"_">>, NaN}}
    \cup {OtherRow}

InitBuild ==
    \/ InitWith(CitePool, {"cite"}, {})
    \/ InitWith(LocPool, {"loc"}, {})

NextBuild ==
    \E v \in {"cite", "loc"}, e \in {a, b} : CliMain(v, e, a)

SpecBuild == InitBuild /\ [][NextBuild]_vars

\* The service under concurrent requests: NReq connections, and triggers
\* that a request can name in either letter case, or with a space or an
\* underscore.
ServePool ==
    {Row(a, t, a, a, a, NaN, NaN, NaN, NaN, a) :
        t \in {<<"a", "A">>, <<" ", "_">>}}

ServeEvents == {a, A, <<" ">>, <<"_">>}

InitServe == InitWith(ServePool, {"server"}, 1..NReq)

NextServe ==
    \/ \E r \in DOMAIN reqs : GetOptions(r)
    \/ \E r \in DOMAIN reqs, t \in ServeEvents : PostHandle(r, a, t)
    \/ \E r \in DOMAIN reqs : PostSend(r)
    \/ \E r \in DOMAIN reqs : Close(r)

SpecServe == InitServe /\ [][NextServe]_vars

-----------------------------------------------------------------------------
(* Claims about the record filter, its errors and the option index (Spec)  *)

\* The calls of generate_flowchart made so far and still on record: the
\* inputs, the exception raised and the rows selected.
Calls ==
    {[entity |-> cli.entity, trigger |-> cli.trigger, exc |-> cli.exc,
      rows |-> cli.rows] : x \in {c \in {cli} : c.pc # "prompt"}}
    \cup
    {[entity |-> reqs[r].agency, trigger |-> reqs[r].event, exc |-> reqs[r].exc,
      rows |-> reqs[r].rows] :
        r \in {q \in DOMAIN reqs : reqs[q].route = "generate-flowchart"}}

\* t occurs in x as literal text (x not missing).
LiteralContains(t, x) ==
    /\ ~isna(x)
    /\ \E k \in 0..(Len(x) - Len(t)) : SubSeq(x, k + 1, k + Len(t)) = t

\* The rows of entity e whose trigger holds t as literal text, in row order.
LiteralSelect(d, e, t) ==
    SelectSeq(Index(d), LAMBDA idx : /\ RowAt(d, idx).entity = e
                                     /\ LiteralContains(t, RowAt(d, idx).trigger))

\* C1: the filter selects exactly the rows whose entity equals e and whose
\* trigger is present and contains t as literal, case-sensitive text, in row
\* order; t is never read as a pattern.  Stated of every call in which the
\* filter made its selection (no exception, or ValueError for an empty one).
C1_LiteralFilter ==
    \A c \in Calls : c.exc \in {"none", "ValueError"} =>
                         c.rows = LiteralSelect(df, c.entity, c.trigger)

\* C2: when no row matches, generate_flowchart raises ValueError before a
\* node or edge exists and the caller recovers without an output file (the
\* CLI prints the error line and ends, the service answers with the error
\* envelope); when a row matches, ValueError is not raised.
C2_NotFound ==
    /\ cli.pc # "prompt" =>
         IF LiteralSelect(df, cli.entity, cli.trigger) = <<>>
         THEN /\ cli.exc = "ValueError"
              /\ cli.pc = "done"
              /\ fs = NoFiles
              /\ cli.printed # <<>>
              /\ cli.printed[Len(cli.printed)] =
                    <<"Error: ">> \o Message("ValueError", cli.entity, cli.trigger)
         ELSE cli.exc # "ValueError"
    /\ \A r \in DOMAIN reqs : reqs[r].route = "generate-flowchart" =>
         IF LiteralSelect(df, reqs[r].agency, reqs[r].event) = <<>>
         THEN /\ reqs[r].exc = "ValueError"
              /\ reqs[r].pc = "done"
              /\ reqs[r].dot = NoDot
              /\ reqs[r].path = <<>>
              /\ reqs[r].message = Message("ValueError", reqs[r].agency, reqs[r].event)
         ELSE reqs[r].exc # "ValueError"

StrictlySorted(s) == \A i, j \in 1..Len(s) : i < j => StrLess(s[i], s[j])

\* What the getters return is in order and has no missing trigger; the
\* service's answer to get-options is what the getters return.
OptionIndexOk ==
    gen.status = "ok" =>
        /\ StrictlySorted(gen.entities)
        /\ StrictlySorted(gen.triggers)
        /\ NaN \notin Range(gen.triggers)
        /\ Range(gen.entities) = {df[i].entity : i \in 1..Len(df)}
        /\ Range(gen.triggers) = {df[i].trigger : i \in 1..Len(df)} \ {NaN}
        /\ \A r \in DOMAIN reqs : reqs[r].route = "get-options" =>
               reqs[r].agencies = gen.entities /\ reqs[r].events = gen.triggers

\* C7: after construction the entity list and the trigger list have no
\* duplicates and are sorted ascending, the trigger list holds no missing
\* value, and no get-options or generate-flowchart call changes the lists or
\* the dataset.
C7_OptionIndex == [](OptionIndexOk) /\ [][df' = df /\ gen' = gen]_vars

\* C7 witness: sorting and dropna both acted (the first row's entity is not
\* the first entity, a trigger is missing), a flowchart has been generated
\* and get-options has answered after it.
C7_Witness ==
    /\ gen.status = "ok"
    /\ Len(gen.entities) > 1
    /\ df[1].entity # gen.entities[1]
    /\ \E i \in 1..Len(df) : isna(df[i].trigger)
    /\ fs # NoFiles
    /\ \E r \in DOMAIN reqs : reqs[r].route = "get-options" /\ reqs[r].pc = "done"

-----------------------------------------------------------------------------
(* Claims about the builders (SpecBuild)                                   *)

\* main() has built a diagram with the builder of the named file.
Built(variant) == prog = variant /\ cli.pc # "prompt" /\ cli.exc = "none"

\* The filtered rows, in filter order.
FilteredRows == [k \in 1..Len(cli.rows) |-> RowAt(df, cli.rows[k])]

CitationMissing(row) == isna(row.citation) \/ isna(row.parent)

\* The nodes and edges of the diagram that belong to the row labelled idx.
NodesOf(dot, idx) ==
    {i \in 1..Len(dot.nodes) :
        Len(dot.nodes[i].id) = 2 /\ dot.nodes[i].id[2] = ToString(idx)}

EdgesOf(dot, idx) ==
    {i \in 1..Len(dot.edges) :
        \E end \in {dot.edges[i][1], dot.edges[i][2]} :
            Len(end) = 2 /\ end[2] = ToString(idx)}

\* C3: in the citation-grouped builder a filtered record whose citation field
\* or parent statute is missing contributes no node and no edge.
C3_MissingCitationSuppressed ==
    Built("cite") =>
        \A k \in 1..Len(cli.rows) :
            CitationMissing(FilteredRows[k]) =>
                /\ NodesOf(cli.flowchart, cli.rows[k]) = {}
                /\ EdgesOf(cli.flowchart, cli.rows[k]) = {}

\* The edges the claim lists for one record: trigger -> citation, then
\* citation -> implementation, health, military, funding for the attributes
\* that are present, in that order.
ClaimedRowEdges(row, idx) ==
    LET cid == <<"citation_", ToString(idx)>>
        kinds == <<"desc_", "health_", "military_", "funding_">>
        present == <<~isna(row.desc), ~isna(row.health),
                     ~isna(row.military), ~isna(row.funding)>>
        kept == SelectSeq(<<1, 2, 3, 4>>, LAMBDA k : present[k])
    IN <<<< <<"trigger">>, cid >>>>
         \o [k \in 1..Len(kept) |-> <<cid, <<kinds[kept[k]], ToString(idx)>> >>]

RECURSIVE ClaimedEdges(_, _)
ClaimedEdges(d, rows) ==
    IF rows = <<>> THEN <<>>
    ELSE ClaimedRowEdges(RowAt(d, Head(rows)), Head(rows)) \o ClaimedEdges(d, Tail(rows))

IsDetailId(id) == Len(id) = 2 /\ id[1] \in {"desc_", "health_", "military_", "funding_"}

AllCitationsPresent == \A k \in 1..Len(cli.rows) : ~CitationMissing(FilteredRows[k])

\* C4: in the citation-grouped builder, when every filtered record has its
\* citation and parent statute, the edges are exactly entity -> trigger, then
\* per record trigger -> citation and citation -> each present detail in the
\* order implementation, health, military, funding; every detail node has one
\* incoming edge, from the citation node of its own record, and a missing
\* attribute gives no node.
C4_CitationEdges ==
    (Built("cite") /\ AllCitationsPresent) =>
        LET dot == cli.flowchart
            incoming(id) == {i \in 1..Len(dot.edges) : dot.edges[i][2] = id}
        IN /\ dot.edges = << << <<"entity">>, <<"trigger">> >> >> \o ClaimedEdges(df, cli.rows)
           /\ Len(dot.nodes) = Len(dot.edges) + 1
           /\ \A n \in 1..Len(dot.nodes) :
                 LET id == dot.nodes[n].id
                 IN /\ \A m \in 1..Len(dot.nodes) : dot.nodes[m].id = id => m = n
                    /\ IsDetailId(id) =>
                          /\ Cardinality(incoming(id)) = 1
                          /\ \A i \in incoming(id) :
                                dot.edges[i][1] = <<"citation_", id[2]>>

\* C4 witness: two filtered records with citations, one with every detail and
\* one with a detail missing.
C4_Witness ==
    /\ Built("cite") /\ AllCitationsPresent
    /\ Len(cli.rows) > 1
    /\ \E k \in 1..Len(cli.rows) :
          Cardinality(EdgesOf(cli.flowchart, cli.rows[k])) = 5
    /\ \E k \in 1..Len(cli.rows) :
          /\ isna(FilteredRows[k].health)
          /\ ~isna(FilteredRows[k].desc)

\* The labels of the group containers, in the order they are created (the
\* clusters after cluster_top and cluster_trigger).
GroupLabels(dot) == [k \in 1..(Len(dot.clusters) - 2) |-> dot.clusters[k + 2].label]

\* C9: in the citation-grouped builder the group of the record at position i
\* (0-based) of the filtered sequence is labelled "Power Group {i+1}": for n
\* filtered records the labels are Power Group 1 .. Power Group n.
C9_GroupLabels ==
    Built("cite") =>
        GroupLabels(cli.flowchart) =
            [k \in 1..Len(cli.rows) |-> <<"Power Group ", ToString(k)>>]

\* C6: in a diagram of either builder no two nodes have the same identifier.
C6_UniqueIds ==
    (cli.pc # "prompt" /\ cli.exc = "none") =>
        \A i, j \in 1..Len(cli.flowchart.nodes) :
            cli.flowchart.nodes[i].id = cli.flowchart.nodes[j].id => i = j

\* C10: on a non-empty filtered sequence, whatever fields are missing, the
\* builder of either file returns a diagram and raises nothing.
C10_BuilderCompletes ==
    (cli.pc # "prompt" /\ cli.rows # <<>>) =>
        /\ cli.exc = "none"
        /\ cli.pc = "done"
        /\ cli.flowchart # NoDot

\* The filtered positions at which a location occurs for the first time.
FirstOccurrences ==
    SelectSeq([k \in 1..Len(cli.rows) |-> k],
              LAMBDA k : \A j \in 1..(k - 1) :
                            FilteredRows[j].location # FilteredRows[k].location)

\* The location node statements of the diagram, in the order emitted.
LocationNodes(dot) ==
    SelectSeq(dot.nodes, LAMBDA n : Len(n.id) > 0 /\ n.id[1] = "location_")

\* C5: in the location-grouped builder (when it returns a diagram) there is
\* one location node with an edge trigger -> location per distinct location
\* of the filtered records, in first-occurrence order; a record with an
\* implementation description has a power node with an edge location -> power
\* and a citation node with an edge power -> citation; a record without one
\* has neither node, whatever its citation data.
C5_LocationChains ==
    Built("loc") =>
        LET dot == cli.flowchart
            first == FirstOccurrences
            locs == LocationNodes(dot)
            edges == {dot.edges[i] : i \in 1..Len(dot.edges)}
            withDesc == {k \in 1..Len(cli.rows) : ~isna(FilteredRows[k].desc)}
            locNodeOf(k) ==
                locs[CHOOSE f \in 1..Len(first) :
                        FilteredRows[first[f]].location = FilteredRows[k].location].id
        IN /\ Len(locs) = Len(first)
           /\ \A f \in 1..Len(first) :
                 locs[f].label =
                    wrap_text(<<"Location:", "\n">> \o FilteredRows[first[f]].location)
           /\ SelectSeq(dot.edges, LAMBDA e : e[1] = <<"trigger">>) =
                 [f \in 1..Len(first) |-> << <<"trigger">>, locs[f].id >>]
           /\ \A k \in 1..Len(cli.rows) :
                 LET idx == cli.rows[k]
                     power == <<"power_", ToString(idx)>>
                     citation == <<"citation_", ToString(idx)>>
                 IN IF k \in withDesc
                    THEN /\ {dot.nodes[i].id : i \in NodesOf(dot, idx)} = {power, citation}
                         /\ Cardinality(NodesOf(dot, idx)) = 2
                         /\ {dot.edges[i] : i \in EdgesOf(dot, idx)} =
                               {<<locNodeOf(k), power>>, <<power, citation>>}
                         /\ Cardinality(EdgesOf(dot, idx)) = 2
                    ELSE NodesOf(dot, idx) = {} /\ EdgesOf(dot, idx) = {}
           /\ Len(dot.nodes) = 2 + Len(first) + 2 * Cardinality(withDesc)
           /\ Len(dot.edges) = 1 + Len(first) + 2 * Cardinality(withDesc)

\* C5 witness: two locations, the later one in the alphabet first; a record
\* with a description and one without it whose citation is present.
C5_Witness ==
    /\ Built("loc")
    /\ Len(FirstOccurrences) = 2
    /\ StrLess(FilteredRows[2].location, FilteredRows[1].location)
    /\ \E k \in 1..Len(cli.rows) : ~isna(FilteredRows[k].desc)
    /\ \E k \in 1..Len(cli.rows) :
          isna(FilteredRows[k].desc) /\ ~CitationMissing(FilteredRows[k])

-----------------------------------------------------------------------------
(* Claims about the service under concurrent requests (SpecServe)          *)

\* C8: whatever the interleaving of generate-flowchart requests, the image a
\* request returns is the one rendered from the diagram of its own (agency,
\* event); no other request changes or replaces it.
C8_OwnImage ==
    \A r \in DOMAIN reqs :
        (reqs[r].route = "generate-flowchart" /\ reqs[r].pc = "done"
            /\ reqs[r].exc = "none") =>
                reqs[r].body = reqs[r].dot

====
